---- MODULE Spec2Model ----
(***************************************************************************)
(* ProcSight: the polling-based monitoring engine of core/monitor.py.      *)
(*                                                                         *)
(* Under Spec a monitoring session is modelled from the moment its         *)
(* sampling loop is about to start; under SpecResolve it starts at the     *)
(* resolution of its pattern argument(s) against the process table.        *)
(* Time is the integer number of time units since start_time; a tick's     *)
(* work takes `work' units and time.sleep(interval) takes `interval'       *)
(* units.                                                                  *)
(* The OS (process table, cumulative counters) and the user (Ctrl+C) are   *)
(* the environment.                                                        *)
(*                                                                         *)
(* The service layer (services/*_backend.py and the selector and service   *)
(* listing of core/core.py) is modelled call by call: every call is one    *)
(* step whose inputs are the answers of the OS (the outcome of each        *)
(* subprocess, the captured output, the plist files present) and whose     *)
(* effects are the value returned, the commands run and the entries        *)
(* written to the logging sink.  It has its own specification, SpecSvc,    *)
(* which also holds the calls of core/core.py (terminate_process,          *)
(* manage_service), core/network.py (find_free_port) and core/utils.py     *)
(* (setup_logging, with the handlers of the shared logger as state).       *)
(*                                                                         *)
(* SpecPair runs two monitoring sessions side by side, each with its own   *)
(* counter cache.                                                          *)
(***************************************************************************)
EXTENDS Integers, Sequences, FiniteSets

\* ------------------------------------------------------------- bounds
MaxDuration == 2
MaxInterval == 2
MaxWork     == 1
MaxCounter  == 1
MaxProcs    == 2
MaxTicks    == 3

\* ------------------------------------------------- program constants
\* print() calls of one iteration's block in watch_process
WatchLines  == 8
\* print() calls of one iteration's block in monitor_system
SystemLines == 6
\* f.write() calls of one iteration in log_performance_snapshot
LogLines    == 1

WATCH  == "watch_process"
SYSTEM == "monitor_system"
MULTI  == "watch_multiple_processes"
LOG    == "log_performance_snapshot"
Functions == {WATCH, SYSTEM, MULTI, LOG}

VARIABLES
    fn,               \* the monitoring function this session runs
    duration,         \* its duration argument (0: None / falsy)
    interval,         \* its interval argument
    os_busy,          \* environment: do the OS counters move in this session
    pc,               \* position of the session in its function
    now,              \* time.time() - start_time
    iteration,        \* the local `iteration' (LOG: logged_count)
    running,          \* environment: pids of the targets still running
    processes,        \* MULTI: the list `processes' (pids); WATCH: <<target_pid>>
    idx,              \* MULTI: position of the for loop in `processes'
    active_processes, \* MULTI: the list `active_processes'
    prev_io,          \* WATCH: prev_io; SYSTEM: prev_disk
    prev_net,         \* WATCH, SYSTEM: prev_net
    sample,           \* the deltas computed by the current tick
    emitted,          \* output lines of the current tick's block printed so far
    file_open,        \* LOG: the output file is open
    reports,          \* the end-of-session messages printed so far
    escaped,          \* an exception left the monitoring function
    \* ---- history variables (observations, not program state)
    reading,          \* raw counters read by the latest tick
    last_reading,     \* raw counters read by the tick before (first tick: the baseline)
    tick,             \* [start, work] of the latest tick
    last_tick,        \* [start, work] of the tick before
    poll_result,      \* MULTI: what the provider answered for each target this tick
    seen_dead,        \* MULTI: targets found dead or inaccessible in an earlier tick
    loss_tick,        \* iteration in which the loss of every target was observed
    dead_since,       \* iteration during which the last running target exited (-1: none)
    interrupted       \* a KeyboardInterrupt arrived inside the sampling loop

VARIABLES
    patterns,         \* the pattern argument(s) the session was started with
    proc_table        \* environment: the process table met by the resolution

inputVars == <<patterns, proc_table>>

VARIABLES
    os_name,          \* environment: platform.system().lower() of this machine
    n_inst,           \* backend objects constructed so far
    request,          \* the latest service-layer call and the OS's answers to it
    result,           \* what that call returned, ran and logged
    logger            \* the handlers of the shared 'procsight' logger

svcVars == <<os_name, n_inst, request, result, logger>>

VARIABLES
    sessions,         \* two interleaved sessions: each one's locals and last tick
    caches,           \* the previous-readings caches, by owner
    os_now            \* environment: the cumulative OS counters right now

pairVars == <<sessions, caches, os_now>>

monitorVars == <<fn, duration, interval, os_busy, pc, now, iteration, running, processes,
          idx, active_processes, prev_io, prev_net, sample, emitted,
          file_open, reports, escaped, reading, last_reading, tick, last_tick,
          poll_result, seen_dead, loss_tick, dead_since, interrupted,
          inputVars>>

vars == <<monitorVars, svcVars, pairVars>>

\* No service-layer call has been made.
NoRequest == [api |-> "none"]
NoResult  == [ret |-> [type |-> "none"], raised |-> FALSE, log |-> <<>>,
              cmds |-> <<>>, instantiated |-> <<>>, rows |-> <<>>]

\* A monitoring session makes no service-layer call.
SvcIdle ==
    /\ os_name = "linux"
    /\ n_inst = 0
    /\ request = NoRequest
    /\ result = NoResult
    /\ logger = <<>>

\* No pair of interleaved sessions runs.
PairIdle ==
    /\ sessions = <<>>
    /\ caches = <<>>
    /\ os_now = 0

\* ---------------------------------------------------------- the provider
\* Cumulative counter values the OS reports in a session.
CounterValues(busy) == IF busy THEN 0..MaxCounter ELSE {0}

\* psutil's pio / sdiskio tuple (read_bytes, write_bytes)
IoReadings(busy) ==
    [read_bytes : CounterValues(busy), write_bytes : CounterValues(busy)]

\* psutil's snetio tuple (bytes_sent, bytes_recv)
NetReadings(busy) ==
    [bytes_sent : CounterValues(busy), bytes_recv : CounterValues(busy)]

\* Time a tick's work (provider calls and printing) takes.
WorkTimes(busy) == IF busy THEN {0} ELSE 0..MaxWork

\* Python's None, as a previous-value cache holds it when there is no reading.
None == [none |-> TRUE]

NoSample == [read |-> 0, write |-> 0, sent |-> 0, recv |-> 0]
NoTick   == [n |-> 0, start |-> 0, work |-> 0]

\* ------------------------------------------------------- delta computation
\* `cur.f - prev.f if prev else 0'
Delta(prev, cur, f) == IF prev = None THEN 0 ELSE cur[f] - prev[f]

\* Faulty variant of NextPrev: the cache keeps its old value.
CacheStale(prev, cur) == prev

\* `prev_io = io_counters' / `prev_net = net_counters': the cache after a tick
NextPrev(prev, cur) == cur

\* The four deltas of one tick.  read/write are io_read/io_write in
\* watch_process and disk_read/disk_write in monitor_system.
ComputeSample(pio, pnet, io, net) ==
    [read  |-> Delta(pio, io, "read_bytes"),
     write |-> Delta(pio, io, "write_bytes"),
     sent  |-> Delta(pnet, net, "bytes_sent"),
     recv  |-> Delta(pnet, net, "bytes_recv")]

\* The row log_performance_snapshot writes: the cumulative readings themselves.
LogRow(net) ==
    [read |-> 0, write |-> 0, sent |-> net.bytes_sent, recv |-> net.bytes_recv]

\* Lines of one tick's output block.
BlockLines(f) ==
    CASE f = WATCH  -> WatchLines
      [] f = SYSTEM -> SystemLines
      [] f = LOG    -> LogLines
      [] OTHER      -> 0

\* ------------------------------------------------------ exception handling
\* Faulty variant of WatchTickExcept: the handlers go on with the loop
\* (`continue') instead of leaving it.
WatchTickLeak(exc) ==
    [next |-> "continue",
     msg  |-> CASE exc = "NoSuchProcess" -> "terminated"
                [] exc = "AccessDenied"  -> "access_denied"
                [] OTHER                 -> "stats_error"]

\* except clauses of the try around one tick's reads in watch_process:
\* every provider exception prints its message and breaks.
WatchTickExcept(exc) ==
    [next |-> "break",
     msg  |-> CASE exc = "NoSuchProcess" -> "terminated"
                [] exc = "AccessDenied"  -> "access_denied"
                [] OTHER                 -> "stats_error"]

\* `if not target_proc.is_running(): ... break'
WatchNotRunning == [next |-> "break", msg |-> "terminated"]

\* Faulty variant of MultiPollExcept: the try is around the for loop, so
\* the exception of one target ends the pass.
MultiPollAbort(exc) == "raise"

\* except clause of the try around one target's poll in
\* watch_multiple_processes: NoSuchProcess and AccessDenied are reported and
\* the for loop goes on; anything else leaves the loop.
MultiPollExcept(exc) ==
    IF exc \in {"NoSuchProcess", "AccessDenied"} THEN "next_target" ELSE "raise"

\* `if not active_processes: ... break'
MultiNoneActive(active) == active = <<>>

\* The bare `except: pass' of show_progress: it also catches
\* KeyboardInterrupt.
ShowProgressExcept(exc) == "swallow"

\* `except KeyboardInterrupt' around each sampling loop.
LoopExcept(exc) == IF exc = "KeyboardInterrupt" THEN "cancel" ELSE "raise"

\* `except Exception as e' around each function body.
OuterExcept(exc) == IF exc = "KeyboardInterrupt" THEN "escape" ELSE "error"

\* What becomes of exception `exc' raised at position `p' of function `f',
\* outside the per-tick / per-target try blocks.
Unwind(f, p, exc) ==
    IF f = LOG /\ p = "progress" THEN ShowProgressExcept(exc)
    ELSE IF LoopExcept(exc) = "cancel" THEN "cancel"
    ELSE OuterExcept(exc)

\* Positions inside the sampling loop (the try ... except KeyboardInterrupt).
LoopPcs == {"loop", "read", "emit", "check_running", "check_duration",
            "header", "poll", "check_active", "progress", "sleep"}

\* Messages printed after the loop once it was left by `how'.
\* monitor_system prints "System monitoring completed" and
\* log_performance_snapshot "Logged n snapshots" whenever no exception
\* is pending after the loop.
AfterLoop(f, how) ==
    CASE how = "cancel" ->
            {"stopped_by_user"} \cup (IF f = SYSTEM THEN {"completed"} ELSE {})
                                \cup (IF f = LOG THEN {"logged"} ELSE {})
      [] how = "exhausted" ->
            (IF f = SYSTEM THEN {"completed"} ELSE {})
                \cup (IF f = LOG THEN {"logged"} ELSE {})
      [] how = "error" -> {"error"}
      [] OTHER -> {}

\* ------------------------------------------------------------------ Init
\* The session has resolved its targets, printed its banner and taken its
\* baseline readings (`prev_io = target_proc.io_counters()',
\* `prev_net = psutil.net_io_counters()'); start_time is time 0.
\* Sessions on a machine whose counters move are explored for the longest
\* duration at interval 1; sessions on an idle machine for every duration,
\* interval and work time.
Init ==
    /\ fn \in Functions
    /\ os_busy \in BOOLEAN
    /\ duration \in 0..MaxDuration
    /\ interval \in 1..MaxInterval
    /\ os_busy => (fn # MULTI /\ duration = MaxDuration /\ interval = 1)
    /\ pc = IF fn = WATCH THEN "read" ELSE "loop"
    /\ now = 0
    /\ iteration = 0
    /\ processes \in IF fn = WATCH THEN {<<1>>}
                     ELSE IF fn = MULTI THEN {[i \in 1..n |-> i] : n \in 1..MaxProcs}
                     ELSE {<<>>}
    /\ running = {processes[i] : i \in 1..Len(processes)}
    /\ idx = 1
    /\ active_processes = <<>>
    /\ prev_io \in IF fn \in {WATCH, SYSTEM} THEN IoReadings(os_busy) ELSE {None}
    /\ prev_net \in IF fn \in {WATCH, SYSTEM} THEN NetReadings(os_busy) ELSE {None}
    /\ sample = NoSample
    /\ emitted = 0
    /\ file_open = (fn = LOG)
    /\ reports = {}
    /\ escaped = FALSE
    /\ reading = [io |-> prev_io, net |-> prev_net]
    /\ last_reading = reading
    /\ tick = NoTick
    /\ last_tick = NoTick
    /\ poll_result = [i \in 1..Len(processes) |-> "unpolled"]
    /\ seen_dead = {}
    /\ loss_tick = 0
    /\ dead_since = -1
    /\ interrupted = FALSE
    /\ patterns = <<>>
    /\ proc_table = <<>>
    /\ SvcIdle
    /\ PairIdle

\* --------------------------------------------------------------- helpers
sessionVars == <<fn, duration, interval, os_busy, processes>>
envVars     == <<running, dead_since>>
multiVars   == <<idx, active_processes, poll_result, seen_dead>>
cacheVars   == <<prev_io, prev_net, sample, reading, last_reading>>
tickVars    == <<tick, last_tick>>

\* The loop is left and the function returns, having printed `msgs';
\* leaving the `with open(...)' block closes the file.
Return(msgs) ==
    /\ pc' = "done"
    /\ reports' = reports \cup msgs
    /\ file_open' = FALSE

\* ---------------------------------------------------------- watch_process
\* What the provider answers to the reads of one tick of watch_process.
WatchOutcomes ==
    IF processes[1] \in running THEN {"ok", "AccessDenied", "Error"}
    ELSE {"NoSuchProcess"}

\* `iteration += 1' and the reads, deltas and cache update of one tick.
WatchRead ==
    /\ fn = WATCH /\ pc = "read" /\ iteration < MaxTicks
    /\ iteration' = iteration + 1
    /\ \E out \in WatchOutcomes :
         IF out = "ok"
         THEN \E w \in WorkTimes(os_busy), io \in IoReadings(os_busy),
                 net \in NetReadings(os_busy) :
                /\ sample' = ComputeSample(prev_io, prev_net, io, net)
                /\ prev_io' = NextPrev(prev_io, io)
                /\ prev_net' = NextPrev(prev_net, net)
                /\ reading' = [io |-> io, net |-> net]
                /\ last_reading' = reading
                /\ tick' = [n |-> iteration', start |-> now, work |-> w]
                /\ last_tick' = tick
                /\ now' = now + w
                /\ emitted' = 0
                /\ pc' = "emit"
                /\ UNCHANGED <<reports, file_open, loss_tick>>
         ELSE LET h == WatchTickExcept(out) IN
                /\ IF h.next = "break"
                   THEN Return({h.msg})
                   ELSE /\ pc' = "read"
                        /\ reports' = reports \cup {h.msg}
                        /\ UNCHANGED file_open
                /\ loss_tick' = IF out = "NoSuchProcess" THEN iteration' ELSE loss_tick
                /\ UNCHANGED <<cacheVars, tickVars, now, emitted>>
    /\ UNCHANGED <<svcVars, pairVars, inputVars, sessionVars, multiVars, envVars, escaped, interrupted>>

\* One print() of the tick's output block (watch_process, monitor_system).
EmitLine ==
    /\ fn \in {WATCH, SYSTEM} /\ pc = "emit"
    /\ emitted' = emitted + 1
    /\ pc' = IF emitted' < BlockLines(fn) THEN "emit"
             ELSE IF fn = WATCH THEN "check_running" ELSE "sleep"
    /\ UNCHANGED <<svcVars, pairVars, inputVars, sessionVars, multiVars, cacheVars, tickVars, now, iteration,
                   envVars, file_open, reports, escaped, loss_tick, interrupted>>

\* `if not target_proc.is_running()'
WatchCheckRunning ==
    /\ fn = WATCH /\ pc = "check_running"
    /\ IF processes[1] \in running
       THEN /\ pc' = "check_duration"
            /\ UNCHANGED <<reports, file_open, loss_tick>>
       ELSE /\ IF WatchNotRunning.next = "break"
               THEN Return({WatchNotRunning.msg})
               ELSE /\ pc' = "check_duration"
                    /\ reports' = reports \cup {WatchNotRunning.msg}
                    /\ UNCHANGED file_open
            /\ loss_tick' = iteration
    /\ UNCHANGED <<svcVars, pairVars, inputVars, sessionVars, multiVars, cacheVars, tickVars, now, iteration,
                   envVars, emitted, escaped, interrupted>>

\* `if duration and (time.time() - start_time) >= duration'
DurationReached(d, t) == d # 0 /\ t >= d

WatchCheckDuration ==
    /\ fn = WATCH /\ pc = "check_duration"
    /\ IF DurationReached(duration, now)
       THEN Return({"completed"})
       ELSE /\ pc' = "sleep"
            /\ UNCHANGED <<reports, file_open>>
    /\ UNCHANGED <<svcVars, pairVars, inputVars, sessionVars, multiVars, cacheVars, tickVars, now, iteration,
                   envVars, emitted, escaped, loss_tick, interrupted>>

\* `time.sleep(interval)'
SleepTime(i) == i

Sleep ==
    /\ pc = "sleep"
    /\ now' = now + SleepTime(interval)
    /\ pc' = IF fn = WATCH THEN "read" ELSE "loop"
    /\ UNCHANGED <<svcVars, pairVars, inputVars, sessionVars, multiVars, cacheVars, tickVars, iteration,
                   envVars, emitted, file_open, reports, escaped, loss_tick,
                   interrupted>>

\* ------------------------------------- the `while elapsed < duration' loops
\* `while (time.time() - start_time) < duration'
LoopCondition(d, t) == t < d

LoopGuard ==
    /\ fn \in {SYSTEM, MULTI, LOG} /\ pc = "loop"
    /\ IF LoopCondition(duration, now)
       THEN /\ pc' = IF fn = MULTI THEN "header" ELSE "read"
            /\ UNCHANGED <<reports, file_open>>
       ELSE Return(AfterLoop(fn, "exhausted"))
    /\ UNCHANGED <<svcVars, pairVars, inputVars, sessionVars, multiVars, cacheVars, tickVars, now, iteration,
                   envVars, emitted, escaped, loss_tick, interrupted>>

\* --------------------------------------------------------- monitor_system
\* `iteration += 1' and the reads, deltas and cache update of one tick.
SystemRead ==
    /\ fn = SYSTEM /\ pc = "read"
    /\ iteration' = iteration + 1
    /\ \E w \in WorkTimes(os_busy), net \in NetReadings(os_busy),
          disk_io \in IoReadings(os_busy) :
         /\ sample' = ComputeSample(prev_io, prev_net, disk_io, net)
         /\ prev_net' = NextPrev(prev_net, net)
         /\ prev_io' = NextPrev(prev_io, disk_io)
         /\ reading' = [io |-> disk_io, net |-> net]
         /\ last_reading' = reading
         /\ tick' = [n |-> iteration', start |-> now, work |-> w]
         /\ last_tick' = tick
         /\ now' = now + w
    /\ emitted' = 0
    /\ pc' = "emit"
    /\ UNCHANGED <<svcVars, pairVars, inputVars, sessionVars, multiVars, envVars, file_open, reports, escaped,
                   loss_tick, interrupted>>

\* ----------------------------------------------- log_performance_snapshot
\* The reads of one tick, `f.write(row)' and `logged_count += 1'.
LogWrite ==
    /\ fn = LOG /\ pc = "read"
    /\ iteration' = iteration + 1
    /\ \E w \in WorkTimes(os_busy), net \in NetReadings(os_busy) :
         /\ sample' = LogRow(net)
         /\ reading' = [io |-> None, net |-> net]
         /\ last_reading' = reading
         /\ tick' = [n |-> iteration', start |-> now, work |-> w]
         /\ last_tick' = tick
         /\ now' = now + w
    /\ emitted' = LogLines
    /\ pc' = "progress"
    /\ UNCHANGED <<svcVars, pairVars, inputVars, sessionVars, multiVars, prev_io, prev_net, envVars, file_open,
                   reports, escaped, loss_tick, interrupted>>

\* `show_progress(int(elapsed), duration, "Logging")' runs to its end.
LogProgress ==
    /\ fn = LOG /\ pc = "progress"
    /\ pc' = "sleep"
    /\ UNCHANGED <<svcVars, pairVars, inputVars, sessionVars, multiVars, cacheVars, tickVars, now, iteration,
                   envVars, emitted, file_open, reports, escaped, loss_tick,
                   interrupted>>

\* ----------------------------------------------- watch_multiple_processes
\* `iteration += 1', the header line and `active_processes = []'.
MultiHeader ==
    /\ fn = MULTI /\ pc = "header"
    /\ iteration' = iteration + 1
    /\ active_processes' = <<>>
    /\ idx' = 1
    /\ seen_dead' = seen_dead \cup
           {i \in DOMAIN poll_result : poll_result[i] \notin {"ok", "unpolled"}}
    /\ poll_result' = [i \in DOMAIN poll_result |-> "unpolled"]
    /\ \E w \in WorkTimes(os_busy) :
         /\ tick' = [n |-> iteration', start |-> now, work |-> w]
         /\ last_tick' = tick
         /\ now' = now + w
    /\ pc' = "poll"
    /\ UNCHANGED <<svcVars, pairVars, inputVars, sessionVars, cacheVars, envVars, emitted, file_open, reports,
                   escaped, loss_tick, interrupted>>

\* The targets the for loop of a tick goes through: `for p in processes'.
PollTargets(procs, active) == procs

\* What the provider answers when target pid is polled: is_running() is
\* false for a process that is gone; a process that is there is sampled,
\* or dies under the poll (NoSuchProcess), or refuses (AccessDenied), or
\* fails otherwise.
PollOutcomes(pid) ==
    IF pid \in running THEN {"ok", "NoSuchProcess", "AccessDenied", "Error"}
    ELSE {"not_running"}

\* The body of `for p in processes' for the target at position idx.
MultiPoll ==
    /\ fn = MULTI /\ pc = "poll"
    /\ idx <= Len(PollTargets(processes, active_processes))
    /\ \E out \in PollOutcomes(processes[idx]) :
         /\ running' = IF out = "NoSuchProcess" THEN running \ {processes[idx]}
                       ELSE running
         /\ dead_since' = IF running' = {} /\ running # {} THEN iteration
                          ELSE dead_since
         /\ IF out \in {"ok", "not_running"} \/ MultiPollExcept(out) = "next_target"
            THEN /\ poll_result' = [poll_result EXCEPT ![idx] = out]
                 /\ active_processes' = IF out = "ok"
                                        THEN Append(active_processes, idx)
                                        ELSE active_processes
                 /\ idx' = idx + 1
                 /\ pc' = IF idx' <= Len(PollTargets(processes, active_processes))
                          THEN "poll" ELSE "check_active"
                 /\ UNCHANGED <<reports, file_open, escaped>>
            ELSE /\ poll_result' = [poll_result EXCEPT ![idx] = out]
                 /\ Return(AfterLoop(fn, OuterExcept(out)))
                 /\ escaped' = (OuterExcept(out) = "escape")
                 /\ UNCHANGED <<active_processes, idx>>
    /\ UNCHANGED <<svcVars, pairVars, inputVars, sessionVars, cacheVars, tickVars, now, iteration, seen_dead,
                   emitted, loss_tick, interrupted>>

\* `if not active_processes: ... break'
MultiCheckActive ==
    /\ fn = MULTI /\ pc = "check_active"
    /\ IF MultiNoneActive(active_processes)
       THEN /\ Return({"all_terminated"})
            /\ loss_tick' = iteration
       ELSE /\ pc' = "sleep"
            /\ UNCHANGED <<reports, file_open, loss_tick>>
    /\ UNCHANGED <<svcVars, pairVars, inputVars, sessionVars, multiVars, cacheVars, tickVars, now, iteration,
                   envVars, emitted, escaped, interrupted>>

\* ------------------------------------------------------------ environment
\* A monitored process exits.
ProcessDies ==
    /\ pc # "done"
    /\ \E p \in running : running' = running \ {p}
    /\ dead_since' = IF running' = {} THEN iteration ELSE dead_since
    /\ UNCHANGED <<svcVars, pairVars, inputVars, sessionVars, multiVars, cacheVars, tickVars, pc, now,
                   iteration, emitted, file_open, reports, escaped, loss_tick,
                   interrupted>>

\* Ctrl+C: KeyboardInterrupt is raised at the session's current position
\* inside the sampling loop.
Interrupt ==
    /\ pc \in LoopPcs
    /\ interrupted' = TRUE
    /\ LET how == Unwind(fn, pc, "KeyboardInterrupt") IN
         IF how = "swallow"
         THEN /\ pc' = "sleep"
              /\ UNCHANGED <<reports, file_open, escaped>>
         ELSE /\ Return(AfterLoop(fn, how))
              /\ escaped' = (how = "escape")
    /\ UNCHANGED <<svcVars, pairVars, inputVars, sessionVars, multiVars, cacheVars, tickVars, now, iteration,
                   envVars, emitted, loss_tick>>

Next ==
    \/ WatchRead
    \/ EmitLine
    \/ WatchCheckRunning
    \/ WatchCheckDuration
    \/ Sleep
    \/ LoopGuard
    \/ SystemRead
    \/ LogWrite
    \/ LogProgress
    \/ MultiHeader
    \/ MultiPoll
    \/ MultiCheckActive
    \/ ProcessDies
    \/ Interrupt

Spec == Init /\ [][Next]_vars

\* ===================================================== target resolution
\* bound on the processes in the table the resolution meets
MaxTable == 2

\* Names and patterns are strings: sequences of characters.
\* (the characters in use: a, A, b, B and the digits)
Digits == {"1", "9"}

\* str.lower()
LowerChar(c) == CASE c = "A" -> "a" [] c = "B" -> "b" [] OTHER -> c
Lower(s) == [i \in 1..Len(s) |-> LowerChar(s[i])]

\* `sub in s'
Contains(sub, s) ==
    \E k \in 0..(Len(s) - Len(sub)) : SubSeq(s, k + 1, k + Len(sub)) = sub

\* `pattern.lower() in proc.info['name'].lower()'
Matches(pattern, name) == Contains(Lower(pattern), Lower(name))

\* int(pattern) succeeds on a decimal numeral (signs, blanks and
\* underscores are not modelled) and raises ValueError otherwise.
IsInt(pattern) == pattern # <<>> /\ \A i \in 1..Len(pattern) : pattern[i] \in Digits
DigitVal(c) == IF c = "1" THEN 1 ELSE 9
RECURSIVE ParseInt(_)
ParseInt(pattern) ==
    IF pattern = <<>> THEN 0
    ELSE 10 * ParseInt(SubSeq(pattern, 1, Len(pattern) - 1))
         + DigitVal(pattern[Len(pattern)])

\* proc.info['name'] is None when the name could not be read.
NoName == <<"None">>

\* An entry of psutil.process_iter(['pid', 'name']): `exc' is the exception
\* matching this process raises ("none": it raises nothing).
Entry(pid, name, exc) == [pid |-> pid, name |-> name, exc |-> exc]

\* What the pid-th process of a table can be.
Entries(pid) ==
    {Entry(pid, n, "none") : n \in {<<"a", "b">>, <<"A">>, <<"b", "1">>, NoName}}
    \cup {Entry(pid, <<"a", "b">>, e) : e \in {"NoSuchProcess", "AccessDenied"}}

\* Process tables, in the order process_iter yields them: pid i at place i.
ProcTables ==
    UNION {{t \in [1..n -> UNION {Entries(i) : i \in 1..n}] :
               \A i \in 1..n : t[i].pid = i} : n \in 0..MaxTable}

\* The pattern arguments the sessions are started with.
Patterns == {<<"a">>, <<"B">>, <<"1">>, <<"9">>}
PatternLists == {<<p>> : p \in Patterns} \cup {<<"a">>, <<"B">>} \X {<<"a">>, <<"B">>}

\* The body of the `for proc in psutil.process_iter' loops, for one process:
\* "match", "skip" (no match, or the handler's `continue'), or the exception
\* that leaves the loop (None has no lower()).
Try(pattern, e) ==
    IF e.exc \in {"NoSuchProcess", "AccessDenied"} THEN "skip"
    ELSE IF e.name = NoName THEN "AttributeError"
    ELSE IF Matches(pattern, e.name) THEN "match"
    ELSE "skip"

Found(pids)  == [kind |-> "found", pids |-> pids]
Raised(exc)  == [kind |-> "raise", exc |-> exc]

\* The name search of watch_process from place i on: the first match, and
\* `break'.
RECURSIVE FirstMatch(_, _, _)
FirstMatch(pattern, table, i) ==
    IF i > Len(table) THEN Found(<<>>)
    ELSE LET t == Try(pattern, table[i]) IN
         IF t = "match" THEN Found(<<table[i].pid>>)
         ELSE IF t = "skip" THEN FirstMatch(pattern, table, i + 1)
         ELSE Raised(t)

\* psutil.Process(pid): NoSuchProcess when no such process exists.
ProcessLookup(pid, table) ==
    IF \E i \in 1..Len(table) : table[i].pid = pid
    THEN Found(<<pid>>) ELSE Raised("NoSuchProcess")

\* Resolution of watch_process: `int(pattern)' and the lookup by PID, or,
\* on ValueError, the name search.
ResolveTarget(pattern, table) ==
    IF IsInt(pattern) THEN ProcessLookup(ParseInt(pattern), table)
    ELSE FirstMatch(pattern, table, 1)

\* The matches of one pattern from place i on, appended to acc.
RECURSIVE AllMatches(_, _, _, _)
AllMatches(pattern, table, i, acc) ==
    IF i > Len(table) THEN Found(acc)
    ELSE LET t == Try(pattern, table[i]) IN
         IF t = "match"
         THEN AllMatches(pattern, table, i + 1, Append(acc, table[i].pid))
         ELSE IF t = "skip" THEN AllMatches(pattern, table, i + 1, acc)
         ELSE Raised(t)

\* Resolution of watch_multiple_processes: `for pattern in patterns', every
\* pattern a name, every match appended to `processes'.
RECURSIVE ResolveAll(_, _, _, _)
ResolveAll(pats, table, j, acc) ==
    IF j > Len(pats) THEN Found(acc)
    ELSE LET r == AllMatches(pats[j], table, 1, acc) IN
         IF r.kind = "raise" THEN r
         ELSE ResolveAll(pats, table, j + 1, r.pids)

\* Faulty variant of Unresolved: the session goes on without a target.
UnresolvedIgnored(targets) == FALSE

\* `if not target_proc:' / `if not processes:'
Unresolved(targets) == targets = <<>>

\* The session is about to resolve its pattern(s).  Sessions of duration 1
\* and interval 1 on an idle machine are explored, for every pattern, every
\* table, and at most MaxProcs targets.
InitResolve ==
    /\ fn \in {WATCH, MULTI}
    /\ os_busy = FALSE
    /\ duration = 1
    /\ interval = 1
    /\ pc = "resolve"
    /\ proc_table \in ProcTables
    /\ patterns \in IF fn = WATCH THEN {<<p>> : p \in Patterns} ELSE PatternLists
    /\ LET r == ResolveAll(patterns, proc_table, 1, <<>>) IN
         fn = MULTI /\ r.kind = "found" => Len(r.pids) <= MaxProcs
    /\ now = 0
    /\ iteration = 0
    /\ processes = <<>>
    /\ running = {}
    /\ idx = 1
    /\ active_processes = <<>>
    /\ prev_io = None
    /\ prev_net = None
    /\ sample = NoSample
    /\ emitted = 0
    /\ file_open = FALSE
    /\ reports = {}
    /\ escaped = FALSE
    /\ reading = [io |-> None, net |-> None]
    /\ last_reading = reading
    /\ tick = NoTick
    /\ last_tick = NoTick
    /\ poll_result = <<>>
    /\ seen_dead = {}
    /\ loss_tick = 0
    /\ dead_since = -1
    /\ interrupted = FALSE
    /\ SvcIdle
    /\ PairIdle

\* What the baseline reads of watch_process (name(), cpu_percent(),
\* io_counters()) answer right after the lookup.
BaselineOutcomes == {"ok", "NoSuchProcess", "AccessDenied"}

\* watch_process up to start_time: resolution, the not-found return, the
\* banner and the baseline readings.  An exception ends in the function's
\* `except Exception'.
WatchResolve ==
    /\ fn = WATCH /\ pc = "resolve"
    /\ LET r == ResolveTarget(patterns[1], proc_table) IN
         IF r.kind = "raise"
         THEN /\ Return({OuterExcept(r.exc)})
              /\ UNCHANGED <<processes, running, cacheVars>>
         ELSE IF Unresolved(r.pids)
         THEN /\ Return({"not_found"})
              /\ UNCHANGED <<processes, running, cacheVars>>
         ELSE \E base \in BaselineOutcomes :
                /\ processes' = r.pids
                /\ running' = {r.pids[i] : i \in 1..Len(r.pids)}
                /\ IF base = "ok"
                   THEN /\ \E io \in IoReadings(os_busy), net \in NetReadings(os_busy) :
                             /\ prev_io' = io
                             /\ prev_net' = net
                             /\ reading' = [io |-> io, net |-> net]
                             /\ last_reading' = reading'
                        /\ pc' = "read"
                        /\ UNCHANGED <<sample, reports, file_open>>
                   ELSE /\ Return({OuterExcept(base)})
                        /\ UNCHANGED cacheVars
    /\ UNCHANGED <<svcVars, pairVars, inputVars, fn, duration, interval, os_busy, multiVars,
                   tickVars, now, iteration, dead_since, emitted, escaped,
                   loss_tick, interrupted>>

\* watch_multiple_processes up to start_time: resolution, the no-match
\* return, the banner and the guarded first cpu_percent() of every target.
MultiResolve ==
    /\ fn = MULTI /\ pc = "resolve"
    /\ LET r == ResolveAll(patterns, proc_table, 1, <<>>) IN
         IF r.kind = "raise"
         THEN /\ Return({OuterExcept(r.exc)})
              /\ UNCHANGED <<processes, running, poll_result>>
         ELSE IF Unresolved(r.pids)
         THEN /\ Return({"no_match"})
              /\ UNCHANGED <<processes, running, poll_result>>
         ELSE /\ processes' = r.pids
              /\ running' = {r.pids[i] : i \in 1..Len(r.pids)}
              /\ poll_result' = [i \in 1..Len(r.pids) |-> "unpolled"]
              /\ pc' = "loop"
              /\ UNCHANGED <<reports, file_open>>
    /\ UNCHANGED <<svcVars, pairVars, inputVars, fn, duration, interval, os_busy, cacheVars,
                   idx, active_processes, seen_dead, tickVars, now, iteration,
                   dead_since, emitted, escaped, loss_tick, interrupted>>

NextResolve ==
    \/ WatchResolve
    \/ MultiResolve
    \/ WatchRead
    \/ EmitLine
    \/ WatchCheckRunning
    \/ WatchCheckDuration
    \/ Sleep
    \/ LoopGuard
    \/ MultiHeader
    \/ MultiPoll
    \/ MultiCheckActive
    \/ ProcessDies
    \/ Interrupt

SpecResolve == InitResolve /\ [][NextResolve]_vars

\* ======================================================= the service layer
\* bound on the exit codes a subprocess returns
MaxExitCode == 1
\* bound on the lines of the output a listing command prints
MaxLines    == 2
\* bound on the backend objects constructed in one behaviour
MaxInst     == 2

\* the plist_paths list of enable_service / disable_service
PlistDirs == 4

Backends == {"systemd", "launchd", "windows"}
OsNames  == {"linux", "darwin", "windows", "other"}
Services == {"sshd", "cron"}

\* What subprocess.run does: it returns a CompletedProcess with a
\* returncode, or raises TimeoutExpired, FileNotFoundError (the executable
\* is missing) or another OSError (e.g. PermissionError).
Exited(c) == [kind |-> "exit", code |-> c]
Outcomes ==
    {Exited(c) : c \in 0..MaxExitCode}
    \cup {[kind |-> k, code |-> -1] : k \in {"timeout", "notfound", "oserror"}}

\* ---- values a call returns
BoolVal(b)        == [type |-> "bool", val |-> b]
ListVal(s)        == [type |-> "list", val |-> s]
NoneVal           == [type |-> "none"]
BlobVal(name, c)  == [type |-> "blob", name |-> name, exit_code |-> c]
BackendVal(b, id) == [type |-> "backend", kind |-> b, id |-> id]

\* ---- entries of the logging sink
\* setup_logging().info(f"<backend> <op>: <name> success=<success>")
ActionEntry(b, op, name, success) ==
    [level |-> "info", backend |-> b, op |-> op, name |-> name, success |-> success]
\* setup_logging().error(f"<backend> <op> error: <e>")
ErrorEntry(b, op) ==
    [level |-> "error", backend |-> b, op |-> op]

\* The outcome of one call: returned value, exception raised to the caller,
\* entries written to the logging sink, subprocess.run calls made.
Res(ret, raised, log, cmds) ==
    [ret |-> ret, raised |-> raised, log |-> log, cmds |-> cmds,
     instantiated |-> <<>>, rows |-> <<>>]

\* Faulty variant of Success: any return code counts as success.
SuccessAnyCode(code) == code >= 0

\* `success = result.returncode == 0'
Success(code) == code = 0

\* ------------------------------------------------------- is_available
\* SystemdBackend.is_available: `systemctl --version' with the handler
\* `except (subprocess.TimeoutExpired, FileNotFoundError)'.
SystemdIsAvailable(probe) ==
    IF probe.kind = "exit"
    THEN Res(BoolVal(Success(probe.code)), FALSE, <<>>, <<"--version">>)
    ELSE IF probe.kind \in {"timeout", "notfound"}
    THEN Res(BoolVal(FALSE), FALSE, <<>>, <<"--version">>)
    ELSE Res(NoneVal, TRUE, <<>>, <<"--version">>)

\* LaunchdBackend.is_available: `os.uname().sysname == 'Darwin''; the os
\* module has no uname on Windows, where the attribute lookup raises.
LaunchdIsAvailable(os) ==
    IF os = "windows" THEN Res(NoneVal, TRUE, <<>>, <<>>)
    ELSE Res(BoolVal(os = "darwin"), FALSE, <<>>, <<>>)

\* WindowsBackend.is_available: `os.name == 'nt''.
WindowsIsAvailable(os) == Res(BoolVal(os = "windows"), FALSE, <<>>, <<>>)

IsAvailable(b, os, probe) ==
    CASE b = "systemd" -> SystemdIsAvailable(probe)
      [] b = "launchd" -> LaunchdIsAvailable(os)
      [] b = "windows" -> WindowsIsAvailable(os)

\* windows_backend.py imports winreg at module level: the module, and so
\* a WindowsBackend object, exists on Windows only.
Importable(b, os) == b = "windows" => os = "windows"

\* --------------------------------------------------- control operations
ControlOps == {"start_service", "stop_service", "restart_service",
               "enable_service", "disable_service"}

\* The verb of the native command each single-command operation runs.
Verb(b, op) ==
    CASE op = "start_service"   -> "start"
      [] op = "stop_service"    -> "stop"
      [] op = "restart_service" -> "restart"
      [] op = "enable_service"  -> IF b = "systemd" THEN "enable"
                                   ELSE IF b = "launchd" THEN "load" ELSE "config"
      [] op = "disable_service" -> IF b = "systemd" THEN "disable"
                                   ELSE IF b = "launchd" THEN "unload" ELSE "config"

\* `except subprocess.TimeoutExpired: print_error(...); return False'
OnTimeout(b, op, name, cmds) == Res(BoolVal(FALSE), FALSE, <<>>, cmds)

\* `except Exception as e: print_error(...);
\*  setup_logging().error(...); return False'
OnException(b, op, name, cmds) ==
    Res(BoolVal(FALSE), FALSE, <<ErrorEntry(b, op)>>, cmds)

\* The tail every control operation shares once its last command returned:
\* success from the return code, the info entry, `return success'.
Finish(b, op, name, code, cmds) ==
    Res(BoolVal(Success(code)), FALSE,
        <<ActionEntry(b, op, name, Success(code))>>, cmds)

\* An operation that runs one native command.
Control(b, op, name, out) ==
    LET cmds == <<Verb(b, op)>> IN
    IF out.kind = "exit" THEN Finish(b, op, name, out.code, cmds)
    ELSE IF out.kind = "timeout" THEN OnTimeout(b, op, name, cmds)
    ELSE OnException(b, op, name, cmds)

\* LaunchdBackend.restart_service: stop, then start; stop_result is
\* never looked at.
LaunchdRestart(name, stop, start) ==
    LET op == "restart_service" IN
    IF stop.kind = "timeout" THEN OnTimeout("launchd", op, name, <<"stop">>)
    ELSE IF stop.kind # "exit" THEN OnException("launchd", op, name, <<"stop">>)
    ELSE IF start.kind = "timeout"
    THEN OnTimeout("launchd", op, name, <<"stop", "start">>)
    ELSE IF start.kind # "exit"
    THEN OnException("launchd", op, name, <<"stop", "start">>)
    ELSE Finish("launchd", op, name, start.code, <<"stop", "start">>)

\* WindowsBackend.restart_service: stop; `if stop_result.returncode != 0:
\* print_error(...); return False'; then start.
WindowsRestart(name, stop, start) ==
    LET op == "restart_service" IN
    IF stop.kind = "timeout" THEN OnTimeout("windows", op, name, <<"stop">>)
    ELSE IF stop.kind # "exit" THEN OnException("windows", op, name, <<"stop">>)
    ELSE IF stop.code # 0 THEN Res(BoolVal(FALSE), FALSE, <<>>, <<"stop">>)
    ELSE IF start.kind = "timeout"
    THEN OnTimeout("windows", op, name, <<"stop", "start">>)
    ELSE IF start.kind # "exit"
    THEN OnException("windows", op, name, <<"stop", "start">>)
    ELSE Finish("windows", op, name, start.code, <<"stop", "start">>)

\* The first of the candidate paths that os.path.exists finds (0: none);
\* `plists' is the set of positions in plist_paths whose file exists.
PlistFile(plists) ==
    IF plists = {} THEN 0
    ELSE CHOOSE i \in plists : \A j \in plists : i <= j

\* `if not plist_file: print_error(...); return False'
PlistMissing(op, name) == Res(BoolVal(FALSE), FALSE, <<>>, <<>>)

\* LaunchdBackend.enable_service / disable_service: locate the plist
\* file, then `launchctl load' / `launchctl unload' it.
LaunchdPlistOp(op, name, plists, out) ==
    IF PlistFile(plists) = 0 THEN PlistMissing(op, name)
    ELSE Control("launchd", op, name, out)

\* ----------------------------------------------------- get_service_status
\* The status blob carries the return code whatever it is.
GetServiceStatus(b, name, out) ==
    IF out.kind = "exit" THEN Res(BlobVal(name, out.code), FALSE, <<>>, <<"status">>)
    ELSE IF out.kind = "timeout" THEN Res(NoneVal, FALSE, <<>>, <<"status">>)
    ELSE Res(NoneVal, FALSE, <<ErrorEntry(b, "get_service_status")>>, <<"status">>)

\* --------------------------------------------------------- list_services
\* A service record is a Python dict; a key it does not hold is Absent.
Absent == "<absent>"
Keys == {"name", "display_name", "description", "state", "active_state",
         "load_state", "sub_state", "type", "label", "pid", "status"}
EmptyDict == [k \in Keys |-> Absent]
\* dict.get(k, default)
Get(d, k, default) == IF d[k] = Absent THEN default ELSE d[k]
\* `k in d'
Has(d, k) == d[k] # Absent
\* truth value of a dict: it holds a key
NonEmpty(d) == \E k \in Keys : Has(d, k)

\* A blank line: nothing is left of it after strip().
Blank == <<>>

\* str.strip() of the captured output: the blank lines at its head go.
RECURSIVE StripHead(_)
StripHead(lines) ==
    IF lines = <<>> THEN <<>>
    ELSE IF Head(lines) = Blank THEN StripHead(Tail(lines))
    ELSE lines

\* `lines[1:]'
Rest(lines) == IF lines = <<>> THEN <<>> ELSE Tail(lines)

\* `systemctl list-units' prints lines of whitespace-separated columns; a
\* line is the sequence line.split() gives.  The lines the model feeds in:
\* the header, two unit rows, a blank line, the legend and the summary.
SystemdLines ==
    { <<"UNIT", "LOAD", "ACTIVE", "SUB", "DESCRIPTION">>,
      <<"sshd.service", "loaded", "active", "running", "OpenSSH">>,
      <<"cron.service", "loaded", "inactive", "dead", "Cron">>,
      Blank,
      <<"LOAD", "=", "Reflects", "whether">>,
      <<"2", "loaded", "units", "listed.">> }

\* `line.strip() and not line.startswith('LOAD')' and `len(parts) >= 4'
SystemdKeep(line) ==
    /\ line # Blank
    /\ line[1] # "LOAD"
    /\ Len(line) >= 4

SystemdRecord(parts) ==
    [EmptyDict EXCEPT !["name"] = parts[1], !["load_state"] = parts[2],
                      !["active_state"] = parts[3], !["sub_state"] = parts[4],
                      !["description"] = IF Len(parts) > 4 THEN parts[5] ELSE ""]

ParseSystemd(lines) ==
    LET kept == SelectSeq(Rest(StripHead(lines)), SystemdKeep)
    IN  [i \in 1..Len(kept) |-> SystemdRecord(kept[i])]

\* `launchctl list' prints PID, Status and Label separated by tabs; a line
\* is the sequence line.split('\t') gives.
LaunchdLines ==
    { <<"PID", "Status", "Label">>,
      <<"123", "0", "com.apple.sshd">>,
      <<"-", "0", "com.apple.cron">>,
      Blank }

LaunchdKeep(line) == line # Blank /\ Len(line) >= 3

\* `int(pid) if pid != '-' else None', None too when int() raises
\* ValueError; the integer is kept as its numeral.
PidInt(tok) == IF tok \in {"0", "123"} THEN tok ELSE "None"

LaunchdRecord(parts) ==
    [EmptyDict EXCEPT !["label"] = parts[3], !["pid"] = PidInt(parts[1]),
                      !["status"] = parts[2]]

ParseLaunchd(lines) ==
    LET kept == SelectSeq(Rest(StripHead(lines)), LaunchdKeep)
    IN  [i \in 1..Len(kept) |-> LaunchdRecord(kept[i])]

\* `sc.exe query' prints "KEY: value" lines; `tight' tells whether the
\* colon follows the key at once (sc.exe pads TYPE and STATE with blanks
\* before the colon).
WinLine(key, tight, value) == [key |-> key, tight |-> tight, value |-> value]
WindowsLines ==
    { WinLine("SERVICE_NAME", TRUE, "Spooler"),
      WinLine("DISPLAY_NAME", TRUE, "Print Spooler"),
      WinLine("STATE", FALSE, "4  RUNNING"),
      WinLine("STATE", TRUE, "1  STOPPED"),
      WinLine("", FALSE, "") }

\* `line.startswith('<KEY>:')'
StartsWithKey(line, key) == line.key = key /\ line.tight

\* The for loop of WindowsBackend.list_services: `cur' is current_service,
\* `acc' is services.
RECURSIVE ParseWindows(_, _, _)
ParseWindows(lines, cur, acc) ==
    IF lines = <<>>
    THEN IF NonEmpty(cur) THEN Append(acc, cur) ELSE acc
    ELSE LET line == Head(lines) IN
         IF StartsWithKey(line, "SERVICE_NAME")
         THEN ParseWindows(Tail(lines),
                           [EmptyDict EXCEPT !["name"] = line.value],
                           IF NonEmpty(cur) THEN Append(acc, cur) ELSE acc)
         ELSE IF StartsWithKey(line, "DISPLAY_NAME")
         THEN ParseWindows(Tail(lines),
                           [cur EXCEPT !["display_name"] = line.value], acc)
         ELSE IF StartsWithKey(line, "TYPE")
         THEN ParseWindows(Tail(lines), [cur EXCEPT !["type"] = line.value], acc)
         ELSE IF StartsWithKey(line, "STATE")
         THEN ParseWindows(Tail(lines), [cur EXCEPT !["state"] = line.value], acc)
         ELSE ParseWindows(Tail(lines), cur, acc)

\* The outputs a listing command of a backend can print.
OutputLines(b) ==
    CASE b = "systemd" -> SystemdLines
      [] b = "launchd" -> LaunchdLines
      [] b = "windows" -> WindowsLines

Stdouts(b) == UNION {[1..n -> OutputLines(b)] : n \in 0..MaxLines}

Parse(b, stdout) ==
    CASE b = "systemd" -> ParseSystemd(stdout)
      [] b = "launchd" -> ParseLaunchd(stdout)
      [] b = "windows" -> ParseWindows(stdout, EmptyDict, <<>>)

\* `if result.returncode != 0: print_error(...); return []'
ListFailed(b) == Res(ListVal(<<>>), FALSE, <<>>, <<"list">>)

\* list_services of the three backends.
ListServices(b, out, stdout) ==
    IF out.kind = "exit"
    THEN IF out.code # 0 THEN ListFailed(b)
         ELSE Res(ListVal(Parse(b, stdout)), FALSE, <<>>, <<"list">>)
    ELSE IF out.kind = "timeout" THEN Res(ListVal(<<>>), FALSE, <<>>, <<"list">>)
    ELSE Res(ListVal(<<>>), FALSE, <<ErrorEntry(b, "list_services")>>, <<"list">>)

\* ---------------------------------------------------- get_service_backend
\* The if / elif chain on platform.system().lower().
BackendFor(os) ==
    CASE os = "linux"   -> "systemd"
      [] os = "windows" -> "windows"
      [] os = "darwin"  -> "launchd"
      [] OTHER          -> "none"

\* Faulty variant of Select: when the matching backend is unavailable a
\* second backend is constructed afterwards.
SelectFallback(b, id, avail) ==
    [avail EXCEPT !.ret = IF ~avail.raised /\ avail.ret.val
                          THEN BackendVal(b, id) ELSE NoneVal,
                  !.raised = FALSE,
                  !.instantiated = IF ~avail.raised /\ avail.ret.val
                                   THEN <<b>> ELSE <<b, "launchd">>]

\* What get_service_backend does with the object it built: return it when
\* is_available() is true, fall through to `return None' when it is false;
\* an exception of is_available() ends in `except Exception: return None'.
Select(b, id, avail) ==
    [avail EXCEPT !.ret = IF ~avail.raised /\ avail.ret.val
                          THEN BackendVal(b, id) ELSE NoneVal,
                  !.raised = FALSE,
                  !.instantiated = <<b>>]

\* get_service_backend(): `n' backend objects exist before the call.
GetServiceBackend(os, probe, n) ==
    IF BackendFor(os) = "none" THEN Res(NoneVal, FALSE, <<>>, <<>>)
    ELSE Select(BackendFor(os), n + 1, IsAvailable(BackendFor(os), os, probe))

\* --------------------------------------------------- core list_services
\* The row core list_services builds from one record (NoRow: none).
NoRow == [Name |-> Absent]
Row(service) ==
    IF Has(service, "name")
    THEN [Name    |-> Get(service, "name", ""),
          Display |-> Get(service, "display_name", Get(service, "description", "")),
          State   |-> Get(service, "state", Get(service, "active_state", "Unknown")),
          Type    |-> Get(service, "type", "Service")]
    ELSE IF Has(service, "label")
    THEN [Name    |-> Get(service, "label", ""),
          Display |-> Get(service, "label", ""),
          State   |-> IF service["pid"] \notin {Absent, "None", "0"}
                      THEN "Running" ELSE "Stopped",
          Type    |-> "LaunchD"]
    ELSE NoRow

\* table_data
Rows(services) ==
    LET rows == [i \in 1..Len(services) |-> Row(services[i])]
        IsRow(r) == r # NoRow
    IN  SelectSeq(rows, IsRow)

\* core list_services(): select the backend, list, build the table.
CoreListServices(os, probe, out, stdout, n) ==
    LET sel == GetServiceBackend(os, probe, n)
        lst == ListServices(sel.ret.kind, out, stdout)
    IN  IF sel.ret = NoneVal THEN sel
        ELSE [ret |-> NoneVal, raised |-> FALSE,
              log |-> sel.log \o lst.log, cmds |-> sel.cmds \o lst.cmds,
              instantiated |-> sel.instantiated,
              rows |-> Rows(lst.ret.val)]

\* ------------------------------------------------- service-layer calls
\* A call is made while the menu is at rest (request = NoRequest).
\* No monitoring session runs while the service layer is exercised.
MonitorIdle ==
    /\ fn = SYSTEM /\ duration = 0 /\ interval = 1 /\ os_busy = FALSE
    /\ pc = "done" /\ now = 0 /\ iteration = 0
    /\ processes = <<>> /\ running = {} /\ idx = 1 /\ active_processes = <<>>
    /\ prev_io = None /\ prev_net = None /\ sample = NoSample /\ emitted = 0
    /\ file_open = FALSE /\ reports = {} /\ escaped = FALSE
    /\ reading = [io |-> None, net |-> None] /\ last_reading = reading
    /\ tick = NoTick /\ last_tick = NoTick /\ poll_result = <<>>
    /\ seen_dead = {} /\ loss_tick = 0 /\ dead_since = -1
    /\ interrupted = FALSE
    /\ patterns = <<>> /\ proc_table = <<>>

\* The machine is of any of the OS families; nothing has been called.
InitSvc ==
    /\ MonitorIdle
    /\ os_name \in OsNames
    /\ n_inst = 0
    /\ request = NoRequest
    /\ result = NoResult
    /\ logger = <<>>
    /\ PairIdle

\* What running `systemctl --version' does on a machine: off Linux there is
\* no systemctl executable.
Probes(os) ==
    IF os = "linux" THEN Outcomes ELSE {[kind |-> "notfound", code |-> -1]}

\* ---------------------------------------------------------- setup_logging
\* bound on the handlers the logger is followed up to
MaxHandlers == 2

\* What the file system lets setup_logging do: everything, not create the
\* logs directory (os.makedirs raises), or not open the log file
\* (logging.FileHandler raises).
FsAnswers == {"ok", "makedirs_fails", "open_fails"}

\* setup_logging() on a logger holding `handlers': the try block up to the
\* statement that raises, then the except block, which adds a console
\* handler to whatever the logger holds by then.
SetupLogging(handlers, fs) ==
    CASE fs = "ok"             -> <<"file", "console">>
      [] fs = "makedirs_fails" -> Append(handlers, "console")
      [] fs = "open_fails"     -> Append(<<>>, "console")

\* Every entry a call logs is written through a setup_logging() call of its
\* own (`setup_logging().info(...)'), `n' of them in one call.
RECURSIVE LogAll(_, _, _)
LogAll(handlers, n, fs) ==
    IF n = 0 THEN handlers
    ELSE LogAll(SetupLogging(handlers, fs), n - 1, fs)

\* What the call just made leaves on the logger.
Logging ==
    \E fs \in FsAnswers :
        /\ Len(LogAll(logger, Len(result'.log), fs)) <= MaxHandlers
        /\ logger' = LogAll(logger, Len(result'.log), fs)

\* utils setup_logging()
CallSetupLogging ==
    \E fs \in FsAnswers :
        /\ request = NoRequest
        /\ Len(SetupLogging(logger, fs)) <= MaxHandlers
        /\ request' = [api |-> "setup_logging", fs |-> fs]
        /\ result' = NoResult
        /\ logger' = SetupLogging(logger, fs)
        /\ UNCHANGED <<monitorVars, pairVars, os_name, n_inst>>

\* backend.is_available() on a backend object of any kind.
CallIsAvailable ==
    \E b \in Backends :
    \E probe \in IF b = "systemd" THEN Probes(os_name) ELSE {Exited(0)} :
        /\ request = NoRequest
        /\ Importable(b, os_name)
        /\ request' = [api |-> "is_available", backend |-> b, probe |-> probe]
        /\ result' = IsAvailable(b, os_name, probe)
        /\ Logging
        /\ UNCHANGED <<monitorVars, pairVars, os_name, n_inst>>

\* backend.list_services()
CallListServices ==
    \E b \in Backends, out \in Outcomes :
    \E stdout \in IF out = Exited(0) THEN Stdouts(b) ELSE {<<>>} :
        /\ request = NoRequest
        /\ Importable(b, os_name)
        /\ request' = [api |-> "list_services", backend |-> b, out |-> out,
                       stdout |-> stdout]
        /\ result' = ListServices(b, out, stdout)
        /\ Logging
        /\ UNCHANGED <<monitorVars, pairVars, os_name, n_inst>>

\* backend.get_service_status(name)
CallGetServiceStatus ==
    \E b \in Backends, name \in Services, out \in Outcomes :
        /\ request = NoRequest
        /\ Importable(b, os_name)
        /\ request' = [api |-> "get_service_status", backend |-> b,
                       name |-> name, out |-> out]
        /\ result' = GetServiceStatus(b, name, out)
        /\ Logging
        /\ UNCHANGED <<monitorVars, pairVars, os_name, n_inst>>

\* The operations made of two commands, and of a file lookup and a command.
TwoStep(b, op)  == b \in {"launchd", "windows"} /\ op = "restart_service"
NeedsPlist(b, op) == b = "launchd" /\ op \in {"enable_service", "disable_service"}

\* start / stop / enable / disable, and the restart of systemd: backend
\* methods that run one command.
CallControl ==
    \E b \in Backends, op \in ControlOps, name \in Services, out \in Outcomes :
        /\ request = NoRequest
        /\ Importable(b, os_name)
        /\ ~TwoStep(b, op) /\ ~NeedsPlist(b, op)
        /\ request' = [api |-> "control", backend |-> b, op |-> op,
                       name |-> name, out |-> out]
        /\ result' = Control(b, op, name, out)
        /\ Logging
        /\ UNCHANGED <<monitorVars, pairVars, os_name, n_inst>>

\* restart_service of launchd and of Windows.
CallRestart ==
    \E b \in {"launchd", "windows"}, name \in Services, stop \in Outcomes :
    \E start \in IF stop.kind = "exit" THEN Outcomes ELSE {Exited(0)} :
        /\ request = NoRequest
        /\ Importable(b, os_name)
        /\ request' = [api |-> "restart", backend |-> b, op |-> "restart_service",
                       name |-> name, stop |-> stop, start |-> start]
        /\ result' = IF b = "launchd" THEN LaunchdRestart(name, stop, start)
                     ELSE WindowsRestart(name, stop, start)
        /\ Logging
        /\ UNCHANGED <<monitorVars, pairVars, os_name, n_inst>>

\* enable_service / disable_service of launchd.
CallPlistOp ==
    \E op \in {"enable_service", "disable_service"}, name \in Services,
       plists \in SUBSET (1..PlistDirs) :
    \E out \in IF plists = {} THEN {Exited(0)} ELSE Outcomes :
        /\ request = NoRequest
        /\ request' = [api |-> "plist", backend |-> "launchd", op |-> op,
                       name |-> name, plists |-> plists, out |-> out]
        /\ result' = LaunchdPlistOp(op, name, plists, out)
        /\ Logging
        /\ UNCHANGED <<monitorVars, pairVars, os_name, n_inst>>

\* core get_service_backend()
CallGetServiceBackend ==
    \E probe \in IF os_name = "linux" THEN Outcomes ELSE {Exited(0)} :
        /\ request = NoRequest
        /\ n_inst < MaxInst
        /\ request' = [api |-> "get_service_backend", probe |-> probe,
                       n_before |-> n_inst]
        /\ result' = GetServiceBackend(os_name, probe, n_inst)
        /\ n_inst' = n_inst + Len(result'.instantiated)
        /\ Logging
        /\ UNCHANGED <<monitorVars, pairVars, os_name>>

\* core list_services()
CallCoreListServices ==
    \E probe \in IF os_name = "linux" THEN Outcomes ELSE {Exited(0)},
       out \in Outcomes :
    \E stdout \in IF out = Exited(0) /\ BackendFor(os_name) # "none"
                  THEN Stdouts(BackendFor(os_name)) ELSE {<<>>} :
        /\ request = NoRequest
        /\ n_inst < MaxInst
        /\ request' = [api |-> "core_list_services", probe |-> probe,
                       out |-> out, stdout |-> stdout, n_before |-> n_inst]
        /\ result' = CoreListServices(os_name, probe, out, stdout, n_inst)
        /\ n_inst' = n_inst + Len(result'.instantiated)
        /\ Logging
        /\ UNCHANGED <<monitorVars, pairVars, os_name>>

\* ------------------------------------------------------ terminate_process
\* is_admin() as the callers test it: `if not is_admin():'
Denied(admin) == ~admin

\* What psutil answers to Process(pid), name(), terminate() and kill().
ProcAnswers == {"ok", "NoSuchProcess", "AccessDenied", "Error"}

\* Answers typed at the confirmation prompt, and str.lower() of them.
Responses == {"y", "Y", "yes", "YES", "n", "no", ""}
LowerWord(w) == CASE w = "Y" -> "y" [] w = "YES" -> "yes" [] OTHER -> w

\* Faulty variant of Confirmed: every answer is taken as a yes.
ConfirmedAny(response) == TRUE

\* `response.lower() not in ['y', 'yes']' is false
Confirmed(response) == LowerWord(response) \in {"y", "yes"}

\* The except clauses of terminate_process: only `except Exception' logs.
TerminateExcept(exc, events) ==
    Res(NoneVal, FALSE,
        IF exc \in {"NoSuchProcess", "AccessDenied"} THEN <<>>
        ELSE <<ErrorEntry("core", "terminate_process")>>,
        events)

\* terminate_process(pid, force): `cmds' is the sequence of what it did
\* ("prompt": input(); "kill" / "terminate": the call on the process;
\* "log": the info entry).
TerminateProcess(lookup, admin, nameout, response, force, sig) ==
    LET call == IF force THEN "kill" ELSE "terminate" IN
    IF lookup # "ok" THEN TerminateExcept(lookup, <<>>)
    ELSE IF Denied(admin) THEN Res(NoneVal, FALSE, <<>>, <<>>)
    ELSE IF nameout # "ok" THEN TerminateExcept(nameout, <<>>)
    ELSE IF ~Confirmed(response) THEN Res(NoneVal, FALSE, <<>>, <<"prompt">>)
    ELSE IF sig # "ok" THEN TerminateExcept(sig, <<"prompt", call>>)
    ELSE Res(NoneVal, FALSE,
             <<ActionEntry("core", "terminate_process", "pid", TRUE)>>,
             <<"prompt", call, "log">>)

\* core terminate_process(pid, force)
CallTerminate ==
    \E lookup \in ProcAnswers, admin \in BOOLEAN, force \in BOOLEAN :
    \E nameout \in IF lookup = "ok" /\ admin THEN ProcAnswers ELSE {"ok"} :
    \E response \in IF nameout = "ok" /\ lookup = "ok" /\ admin
                    THEN Responses ELSE {""} :
    \E sig \in IF LowerWord(response) \in {"y", "yes"} THEN ProcAnswers ELSE {"ok"} :
        /\ request = NoRequest
        /\ request' = [api |-> "terminate_process", lookup |-> lookup,
                       admin |-> admin, force |-> force, nameout |-> nameout,
                       response |-> response, sig |-> sig]
        /\ result' = TerminateProcess(lookup, admin, nameout, response, force, sig)
        /\ Logging
        /\ UNCHANGED <<monitorVars, pairVars, os_name, n_inst>>

\* --------------------------------------------------------- find_free_port
\* Port numbers of the ranges tried.
MaxPort == 3
Ports == 1..MaxPort

\* Faulty variant of LastPort: the end of the range is left out.
LastPortExcluded(end_port) == end_port - 1

\* range(start_port, end_port + 1) ends with end_port
LastPort(end_port) == end_port

\* The for loop of find_free_port from `port' on; a port of `busy' makes
\* bind() raise OSError.  `tried' are the ports bound so far, in order.
RECURSIVE Scan(_, _, _, _)
Scan(port, end_port, busy, tried) ==
    IF port > LastPort(end_port) THEN Res(NoneVal, FALSE, <<>>, tried)
    ELSE IF port \notin busy
         THEN Res([type |-> "int", val |-> port], FALSE, <<>>, Append(tried, port))
         ELSE Scan(port + 1, end_port, busy, Append(tried, port))

FindFreePort(start_port, end_port, busy) == Scan(start_port, end_port, busy, <<>>)

\* network find_free_port(start_port, end_port)
CallFindFreePort ==
    \E start_port \in Ports, end_port \in Ports, busy \in SUBSET Ports :
        /\ request = NoRequest
        /\ request' = [api |-> "find_free_port", start_port |-> start_port,
                       end_port |-> end_port, busy |-> busy]
        /\ result' = FindFreePort(start_port, end_port, busy)
        /\ Logging
        /\ UNCHANGED <<monitorVars, pairVars, os_name, n_inst>>

\* --------------------------------------------------------- manage_service
\* The action names the menu passes, and one that is not a key of `actions'.
ActionNames == {"start", "stop", "restart", "enable", "disable", "status"}

\* The `actions' dict: the backend method each key is bound to ("": none).
Actions(action) ==
    CASE action = "start"   -> "start_service"
      [] action = "stop"    -> "stop_service"
      [] action = "restart" -> "restart_service"
      [] action = "enable"  -> "enable_service"
      [] action = "disable" -> "disable_service"
      [] OTHER              -> ""

\* backend.<op>(name) on a backend of kind b; `env' holds what the machine
\* answers: the outcome of the (first) command, of the second command of a
\* two-step restart, and the plist files that exist.
BackendOp(b, op, name, env) ==
    IF TwoStep(b, op)
    THEN IF b = "launchd" THEN LaunchdRestart(name, env.out, env.start)
         ELSE WindowsRestart(name, env.out, env.start)
    ELSE IF NeedsPlist(b, op) THEN LaunchdPlistOp(op, name, env.plists, env.out)
    ELSE Control(b, op, name, env.out)

\* Faulty variant of Privileged: the privilege test is left out.
PrivilegedAlways(admin) == TRUE

\* `if not is_admin(): ... return False' is passed
Privileged(admin) == ~Denied(admin)

\* manage_service(action, service_name); `ops' lists the backend operations
\* invoked, each with the backend object it was invoked on.
ManageService(os, probe, n, admin, action, name, env) ==
    LET sel  == GetServiceBackend(os, probe, n)
        op   == Actions(action)
        done == BackendOp(sel.ret.kind, op, name, env)
        Refused == [ret |-> BoolVal(FALSE), raised |-> FALSE, log |-> sel.log,
                    cmds |-> sel.cmds, instantiated |-> sel.instantiated,
                    rows |-> <<>>, ops |-> <<>>]
    IN  IF sel.ret = NoneVal THEN Refused
        ELSE IF ~Privileged(admin) THEN Refused
        ELSE IF op = "" THEN Refused
        ELSE [ret |-> done.ret, raised |-> FALSE, log |-> sel.log \o done.log,
              cmds |-> sel.cmds \o done.cmds, instantiated |-> sel.instantiated,
              rows |-> <<>>,
              ops |-> <<[backend |-> sel.ret, op |-> op, name |-> name]>>]

\* core manage_service(action, service_name)
CallManageService ==
    \E probe \in IF os_name = "linux" THEN Outcomes ELSE {Exited(0)},
       admin \in BOOLEAN, action \in ActionNames, name \in Services :
    \E out \in IF admin /\ Actions(action) # "" THEN Outcomes ELSE {Exited(0)} :
    \E start \in IF action = "restart" /\ out.kind = "exit"
                 THEN {Exited(0), Exited(1)} ELSE {Exited(0)},
       plists \in IF action \in {"enable", "disable"} /\ os_name = "darwin"
                  THEN {{}, {2}} ELSE {{2}} :
        /\ request = NoRequest
        /\ n_inst < MaxInst
        /\ request' = [api |-> "manage_service", probe |-> probe, admin |-> admin,
                       action |-> action, name |-> name,
                       env |-> [out |-> out, start |-> start, plists |-> plists],
                       n_before |-> n_inst]
        /\ result' = ManageService(os_name, probe, n_inst, admin, action, name,
                                   [out |-> out, start |-> start, plists |-> plists])
        /\ n_inst' = n_inst + Len(result'.instantiated)
        /\ Logging
        /\ UNCHANGED <<monitorVars, pairVars, os_name>>

\* The call is over and its values are dropped: the menu loop of main() is
\* back at show_menu().
ShowMenu ==
    /\ request # NoRequest
    /\ request' = NoRequest
    /\ result' = NoResult
    /\ UNCHANGED <<monitorVars, pairVars, logger, os_name, n_inst>>

NextSvc ==
    \/ ShowMenu
    \/ CallTerminate
    \/ CallFindFreePort
    \/ CallManageService
    \/ CallSetupLogging
    \/ CallIsAvailable
    \/ CallListServices
    \/ CallGetServiceStatus
    \/ CallControl
    \/ CallRestart
    \/ CallPlistOp
    \/ CallGetServiceBackend
    \/ CallCoreListServices

SpecSvc == InitSvc /\ [][NextSvc]_vars

\* ================================================ two interleaved sessions
\* Two sessions of watch_process run interleaved on one machine.  Each keeps
\* prev_io / prev_net as locals of its own call; both read the same OS
\* counters, which only the OS changes.
Sess == {1, 2}

\* What io_counters() and net_io_counters() return when the cumulative
\* count of the machine is c.
Reading(c) ==
    [io  |-> [read_bytes |-> c, write_bytes |-> c],
     net |-> [bytes_sent |-> c, bytes_recv |-> c]]

NotStarted ==
    [started |-> FALSE, n |-> 0, reading |-> Reading(0),
     last_reading |-> Reading(0), sample |-> NoSample]

\* Faulty variant of CacheOf: one cache serves both sessions.
CacheShared(s) == 1

\* The cache session s reads and writes: the locals of its own call.
CacheOf(s) == s

InitPair ==
    /\ MonitorIdle
    /\ SvcIdle
    /\ sessions = [s \in Sess |-> NotStarted]
    /\ caches = [s \in Sess |-> Reading(0)]
    /\ os_now \in CounterValues(TRUE)

\* A session starts: the baseline readings before its loop.
PairStart ==
    \E s \in Sess :
        /\ ~sessions[s].started
        /\ caches' = [caches EXCEPT ![CacheOf(s)] = Reading(os_now)]
        /\ sessions' = [sessions EXCEPT ![s] =
                           [started |-> TRUE, n |-> 0, reading |-> Reading(os_now),
                            last_reading |-> Reading(os_now), sample |-> NoSample]]
        /\ UNCHANGED <<monitorVars, svcVars, os_now>>

\* One tick of a session: the reads, the deltas and the cache update.
PairTick ==
    \E s \in Sess :
        /\ sessions[s].started
        /\ sessions[s].n < MaxTicks
        /\ LET cur  == Reading(os_now)
               prev == caches[CacheOf(s)]
           IN  /\ sessions' = [sessions EXCEPT ![s] =
                      [started |-> TRUE, n |-> @.n + 1, reading |-> cur,
                       last_reading |-> @.reading,
                       sample |-> ComputeSample(prev.io, prev.net, cur.io, cur.net)]]
               /\ caches' = [caches EXCEPT ![CacheOf(s)] =
                      [io  |-> NextPrev(prev.io, cur.io),
                       net |-> NextPrev(prev.net, cur.net)]]
        /\ UNCHANGED <<monitorVars, svcVars, os_now>>

\* The OS counters move (a reset included).
OsMoves ==
    /\ \E c \in CounterValues(TRUE) : c # os_now /\ os_now' = c
    /\ UNCHANGED <<monitorVars, svcVars, sessions, caches>>

NextPair ==
    \/ PairStart
    \/ PairTick
    \/ OsMoves

SpecPair == InitPair /\ [][NextPair]_vars

\* ================================================================ claims
CeilDiv(a, b) == (a + b - 1) \div b

\* A session that a tick has sampled at least twice in a row.
TwoTicks == tick.n >= 2 /\ last_tick.n = tick.n - 1

\* The session's targets are all alive and nothing has cut it short.
Undisturbed ==
    /\ ~interrupted
    /\ loss_tick = 0
    /\ running = {processes[i] : i \in 1..Len(processes)}
    /\ reports \subseteq {"completed"}

\* C1: in watch_process and monitor_system every reported delta is
\* non-negative, and a counter that went down (reset, wraparound) since the
\* previous reading is reported as a delta of 0.
C1_DeltasClamped ==
    fn \in {WATCH, SYSTEM} =>
        /\ sample.read >= 0 /\ sample.write >= 0
        /\ sample.sent >= 0 /\ sample.recv >= 0
        /\ reading.io.read_bytes < last_reading.io.read_bytes => sample.read = 0
        /\ reading.io.write_bytes < last_reading.io.write_bytes => sample.write = 0
        /\ reading.net.bytes_sent < last_reading.net.bytes_sent => sample.sent = 0
        /\ reading.net.bytes_recv < last_reading.net.bytes_recv => sample.recv = 0

\* C2: once the loss of the only target (watch_process) or of every target
\* (watch_multiple_processes) is observed, the loop has been left in that
\* very tick and no exception left the function; and after the last target
\* died no tick beyond the next one is started.
C2_LossEndsSession ==
    fn \in {WATCH, MULTI} =>
        /\ loss_tick # 0 =>
              /\ pc = "done"
              /\ iteration = loss_tick
              /\ ~escaped
              /\ reports \cap {"terminated", "all_terminated"} # {}
        /\ running = {} => iteration <= dead_since + 1

C2_Witness ==
    /\ fn = WATCH /\ pc = "done"
    /\ running = {} /\ dead_since >= 1
    /\ loss_tick = dead_since + 1
    /\ "terminated" \in reports

\* C3: an undisturbed session with duration D > 0 performs at most
\* ceil(D/I) ticks and has returned by D + I.
C3_TickBudget ==
    (fn \in {WATCH, MULTI, SYSTEM} /\ duration > 0 /\ Undisturbed) =>
        /\ iteration <= CeilDiv(duration, interval)
        /\ pc = "done" => now <= duration + interval

\* C4: in watch_process, when a tick follows another and an IO counter did
\* not go down between the two readings, the reported delta is the
\* difference of the two readings; after every sampling tick the cache holds
\* that tick's reading.
C4_ConsecutiveDelta ==
    fn = WATCH =>
        /\ tick.n >= 1 => (prev_io = reading.io /\ prev_net = reading.net)
        /\ TwoTicks =>
              /\ reading.io.read_bytes >= last_reading.io.read_bytes =>
                    sample.read = reading.io.read_bytes - last_reading.io.read_bytes
              /\ reading.io.write_bytes >= last_reading.io.write_bytes =>
                    sample.write = reading.io.write_bytes - last_reading.io.write_bytes

C4_Witness ==
    /\ fn = WATCH /\ TwoTicks
    /\ emitted = WatchLines
    /\ reading.io.read_bytes > last_reading.io.read_bytes
    /\ sample.read = 1

\* C5: in watch_multiple_processes a target found not running or
\* inaccessible in an earlier tick is not polled in a later one.
C5_DeadNeverPolled ==
    fn = MULTI => \A i \in seen_dead : poll_result[i] = "unpolled"

\* C6: in watch_multiple_processes a NoSuchProcess or AccessDenied of one
\* target leaves the others alone: the tick's pass reaches every target,
\* the targets sampled are exactly those that answered, and a session that
\* ends inside its budget, uninterrupted and with no other provider error,
\* ended in a tick in which no target was active.
Sampled == {active_processes[k] : k \in 1..Len(active_processes)}

C6_LossIsolated ==
    fn = MULTI =>
        /\ \A i \in 1..Len(processes) : poll_result[i] = "ok" <=> i \in Sampled
        /\ pc \in {"check_active", "sleep"} =>
              \A i \in 1..Len(processes) : poll_result[i] # "unpolled"
        /\ ( /\ pc = "done" /\ now < duration /\ ~interrupted
             /\ \A i \in 1..Len(processes) : poll_result[i] # "Error" ) =>
              /\ "all_terminated" \in reports
              /\ Sampled = {}
              /\ \A i \in 1..Len(processes) : poll_result[i] \notin {"ok", "unpolled"}

C6_Witness ==
    /\ fn = MULTI /\ pc = "sleep" /\ iteration >= 2
    /\ \E i, j \in 1..Len(processes) :
         /\ i < j
         /\ i \in seen_dead
         /\ poll_result[i] \in {"NoSuchProcess", "AccessDenied"}
         /\ poll_result[j] = "ok" /\ j \in Sampled

\* C7: after a KeyboardInterrupt inside the sampling loop the session has
\* ended, no exception left the function and the output file is closed.
C7_InterruptEnds ==
    interrupted => (pc = "done" /\ ~escaped /\ ~file_open)

\* C8: a session that has unwound has emitted the block of its last tick
\* either whole or not at all.
C8_NoPartialSample ==
    pc = "done" => emitted \in {0, BlockLines(fn)}

\* C9: the first tick of watch_process and monitor_system reports IO and
\* network deltas of 0.
C9_FirstTickZero ==
    (fn \in {WATCH, SYSTEM} /\ tick.n = 1) => sample = NoSample

\* C10: a tick that follows another starts one interval after that one
\* started when its work took less than the interval, and right after
\* its work otherwise.
C10_TickBoundary ==
    (fn \in {WATCH, SYSTEM} /\ TwoTicks) =>
        tick.start = IF last_tick.work < interval
                     THEN last_tick.start + interval
                     ELSE last_tick.start + last_tick.work

\* ---------------------------------------------------------------------
\* C11: for each of the three backends, when the native listing command
\* exits with a non-zero code, list_services returns an empty sequence,
\* leaves exactly one entry in the logging sink and raises nothing.
C11_ListFailureLogged ==
    (/\ request.api = "list_services"
     /\ request.out.kind = "exit"
     /\ request.out.code # 0)
    => (/\ result.ret = ListVal(<<>>)
        /\ Len(result.log) = 1
        /\ ~result.raised)

\* ---------------------------------------------------------------------
\* C12: get_service_backend constructs at most one backend per call, the
\* one matching the OS; it returns that backend exactly when its
\* is_available() returned true, and otherwise returns None without
\* constructing or probing another backend and without raising.  The
\* object returned was constructed by this very call.
C12_SingleFreshBackend ==
    request.api = "get_service_backend" =>
        LET b     == BackendFor(os_name)
            avail == IsAvailable(b, os_name, request.probe)
            ok    == b # "none" /\ ~avail.raised /\ avail.ret.val
        IN  /\ Len(result.instantiated) <= 1
            /\ \A i \in 1..Len(result.instantiated) : result.instantiated[i] = b
            /\ ~result.raised
            /\ result.ret.type \in {"backend", "none"}
            /\ result.ret.type = "backend" <=> ok
            /\ result.ret.type = "backend" =>
                   /\ result.ret.kind = b
                   /\ result.ret.id > request.n_before
                   /\ result.ret.id = n_inst
            /\ b # "none" => result.cmds = avail.cmds
            /\ b = "none" => result.cmds = <<>>
            /\ n_inst = request.n_before + Len(result.instantiated)

\* A second selection on a Linux machine whose `systemctl --version' exits
\* with a non-zero code: None, with the one SystemdBackend constructed.
C12_Witness ==
    /\ request.api = "get_service_backend"
    /\ request.n_before = 1
    /\ request.probe = Exited(1)
    /\ result.instantiated = <<"systemd">>
    /\ result.ret = NoneVal

\* ---------------------------------------------------------------------
\* C13: enable_service and disable_service of the launchd backend, for a
\* service whose plist file is in none of the four candidate directories,
\* return false, write an entry (NotFound) to the logging sink and never
\* run launchctl load / unload.
C13_MissingPlistLogged ==
    (request.api = "plist" /\ request.plists = {}) =>
        /\ result.ret = BoolVal(FALSE)
        /\ \E i \in 1..Len(result.log) : result.log[i].op = request.op
        /\ \A i \in 1..Len(result.cmds) : result.cmds[i] \notin {"load", "unload"}

\* ---------------------------------------------------------------------
\* C14: on launchd and Windows restart_service runs stop and then start and
\* returns true only if both commands exited with code 0; whenever the stop
\* step fails the result is false.
C14_RestartNeedsBoth ==
    request.api = "restart" =>
        /\ result.ret = BoolVal(TRUE) =>
               /\ request.stop = Exited(0)
               /\ request.start = Exited(0)
               /\ result.cmds = <<"stop", "start">>
        /\ request.stop # Exited(0) => result.ret = BoolVal(FALSE)

\* ---------------------------------------------------------------------
\* C15: every call of start / stop / restart / enable / disable_service, on
\* any backend and on every path (exit 0, non-zero exit, timeout, OS
\* exception, failure before the control command), writes a log entry
\* carrying the service name, the action and the success outcome.
C15_EveryAttemptLogged ==
    request.api \in {"control", "restart", "plist"} =>
        \E i \in 1..Len(result.log) :
            /\ result.log[i].level = "info"
            /\ result.log[i].op = request.op
            /\ result.log[i].name = request.name
            /\ result.log[i].success = result.ret.val

\* ---------------------------------------------------------------------
\* C16: start / stop / enable / disable_service of every backend, and
\* restart_service of systemd, return true exactly when the native control
\* command was run and exited with code 0; they return false on a non-zero
\* exit, a timeout and an OS-call exception.
C16_TrueIffExitZero ==
    request.api \in {"control", "plist"} =>
        LET verb == Verb(request.backend, request.op)
            ran  == \E i \in 1..Len(result.cmds) : result.cmds[i] = verb
        IN  /\ ~result.raised
            /\ result.ret.type = "bool"
            /\ result.ret.val <=> (ran /\ request.out = Exited(0))

\* launchd enable_service with the plist in the third candidate directory
\* and `launchctl load' exiting with 0.
C16_Witness ==
    /\ request.api = "plist"
    /\ request.op = "enable_service"
    /\ request.plists = {3}
    /\ request.out = Exited(0)
    /\ result.cmds = <<"load">>
    /\ result.ret = BoolVal(TRUE)

\* ---------------------------------------------------------------------
\* C17: no backend operation lets an exception reach its caller; a
\* subprocess timeout, a non-zero exit or an OS-call exception is always
\* converted to False, to an empty sequence or to None.
C17_FailureConverted ==
    LET failed ==
            CASE request.api \in {"list_services", "get_service_status", "control"}
                     -> request.out # Exited(0)
              [] request.api = "plist"
                     -> request.plists # {} /\ request.out # Exited(0)
              [] request.api = "restart"
                     -> \/ request.stop # Exited(0)
                        \/ request.start # Exited(0)
              [] OTHER -> FALSE
    IN  /\ request.api \in {"list_services", "get_service_status", "control",
                            "plist", "restart"} => ~result.raised
        /\ failed => result.ret \in {BoolVal(FALSE), ListVal(<<>>), NoneVal}

\* ---------------------------------------------------------------------
\* C18: is_available() of every backend has no side effect and never
\* raises; on an OS that is not the backend's own, or where the probe is
\* missing, fails to execute or times out, it returns false.
OwnOs(b) ==
    CASE b = "systemd" -> "linux"
      [] b = "launchd" -> "darwin"
      [] b = "windows" -> "windows"

C18_ProbeNeverRaises ==
    request.api = "is_available" =>
        /\ ~result.raised
        /\ result.log = <<>>
        /\ (\/ os_name # OwnOs(request.backend)
            \/ request.backend = "systemd" /\ request.probe.kind # "exit")
           => result.ret = BoolVal(FALSE)

\* ---------------------------------------------------------------------
\* C19: every row core list_services builds from a backend record has its
\* State in the closed set {Running, Stopped, Unknown}, whichever backend
\* the record comes from.
C19_StateNormalised ==
    request.api = "core_list_services" =>
        \A i \in 1..Len(result.rows) :
            result.rows[i].State \in {"Running", "Stopped", "Unknown"}

\* ---------------------------------------------------------------------
\* C20: when no target resolves (a name no process contains, or a numeric
\* PID that does not exist) watch_process and watch_multiple_processes
\* report it and return, without any sampling tick and without raising.
NameContains(e, pattern) ==
    e.exc = "none" /\ e.name # NoName /\ Matches(pattern, e.name)

NoTarget ==
    /\ patterns # <<>>
    /\ IF fn = WATCH /\ IsInt(patterns[1])
       THEN \A i \in 1..Len(proc_table) : proc_table[i].pid # ParseInt(patterns[1])
       ELSE \A j \in 1..Len(patterns), i \in 1..Len(proc_table) :
                ~NameContains(proc_table[i], patterns[j])

C20_NoTargetNoTick ==
    NoTarget =>
        /\ pc \in {"resolve", "done"}
        /\ iteration = 0
        /\ tick = NoTick
        /\ processes = <<>>
        /\ ~escaped
        /\ pc = "done" => /\ reports # {}
                          /\ reports \subseteq {"not_found", "no_match", "error"}

\* watch_process("B") on a machine whose only process is named "A" has
\* returned after "Process 'B' not found".
C20_Witness ==
    /\ fn = WATCH
    /\ patterns = << <<"B">> >>
    /\ proc_table = <<Entry(1, <<"A">>, "none")>>
    /\ pc = "done"
    /\ reports = {"not_found"}
    /\ iteration = 0

\* ---------------------------------------------------------------------
\* C21: a monitoring session ends in exactly one of Completed, Terminated,
\* Cancelled and reports only that one: Completed is reported only when the
\* duration budget elapsed, and a session ended by an interrupt is reported
\* as cancelled and not also as completed.
ReportedOutcomes ==
    (IF "completed" \in reports THEN {"Completed"} ELSE {})
    \cup (IF "stopped_by_user" \in reports THEN {"Cancelled"} ELSE {})
    \cup (IF reports \cap {"terminated", "all_terminated", "access_denied",
                           "stats_error", "error"} # {}
          THEN {"Terminated"} ELSE {})

C21_OneOutcome ==
    pc = "done" =>
        /\ Cardinality(ReportedOutcomes) <= 1
        /\ "completed" \in reports => now >= duration
        /\ "stopped_by_user" \in reports => "completed" \notin reports

\* ---------------------------------------------------------------------
\* C22: two interleaved sessions share no mutable state: under every
\* interleaving the deltas a session reports are those of its own reading
\* and its own previous reading, as if it ran alone over the same readings.
C22_SessionsIndependent ==
    \A s \in DOMAIN sessions :
        sessions[s].n > 0 =>
            sessions[s].sample =
                ComputeSample(sessions[s].last_reading.io, sessions[s].last_reading.net,
                              sessions[s].reading.io, sessions[s].reading.net)

\* Session 1 read count 0 and then count 1 while session 2 ticked at
\* count 1: session 1 reports the delta 1.
C22_Witness ==
    /\ sessions # <<>>
    /\ sessions[1].n = 2 /\ sessions[2].n = 1
    /\ sessions[1].last_reading = Reading(0)
    /\ sessions[1].reading = Reading(1)
    /\ sessions[2].reading = Reading(1)
    /\ sessions[1].sample.sent = 1

\* ---------------------------------------------------------------------
\* C23: the two network fields of every data row log_performance_snapshot
\* writes are per-interval deltas: the cumulative reading of this tick
\* minus that of the previous tick, not the cumulative totals.
C23_LogRowDeltas ==
    (fn = LOG /\ TwoTicks) =>
        /\ sample.sent = reading.net.bytes_sent - last_reading.net.bytes_sent
        /\ sample.recv = reading.net.bytes_recv - last_reading.net.bytes_recv

\* ---------------------------------------------------------------------
\* C24: terminate_process never calls terminate() or kill() when is_admin()
\* is false; when it is true it does so only after the prompt was answered
\* y or yes, kill() if force and terminate() otherwise, exactly once, and it
\* logs the action only after the call was made.
C24_TerminateGuarded ==
    request.api = "terminate_process" =>
        LET ev   == result.cmds
            sigs == {i \in 1..Len(ev) : ev[i] \in {"kill", "terminate"}}
        IN  /\ ~request.admin => sigs = {}
            /\ sigs # {} =>
                  /\ request.response \in {"y", "Y", "yes", "YES"}
                  /\ Cardinality(sigs) = 1
                  /\ \A i \in sigs :
                        /\ ev[i] = IF request.force THEN "kill" ELSE "terminate"
                        /\ \E j \in 1..(i - 1) : ev[j] = "prompt"
            /\ \A j \in 1..Len(ev) : ev[j] = "log" => \E i \in sigs : i < j
            /\ \A k \in 1..Len(result.log) :
                   result.log[k].level = "info" => \E j \in 1..Len(ev) : ev[j] = "log"

\* An administrator answered YES to a forced termination: one kill(), then
\* the log entry.
C24_Witness ==
    /\ request.api = "terminate_process"
    /\ request.admin /\ request.force
    /\ request.response = "YES"
    /\ result.cmds = <<"prompt", "kill", "log">>
    /\ Len(result.log) = 1

\* ---------------------------------------------------------------------
\* C25: find_free_port(start, end) tries the ports of [start, end] in
\* increasing order and returns the lowest one whose bind succeeds, skipping
\* those whose bind raises OSError; it returns None when no port of the
\* range can be bound, the empty range included.
C25_LowestFreePort ==
    request.api = "find_free_port" =>
        LET range == request.start_port..request.end_port
            free  == range \ request.busy
            tried == result.cmds
        IN  /\ \A i \in 1..Len(tried) : tried[i] = request.start_port + i - 1
            /\ \A i \in 1..Len(tried) : tried[i] \in range
            /\ IF free = {}
               THEN /\ result.ret = NoneVal
                    /\ Len(tried) = Cardinality(range)
               ELSE /\ result.ret.type = "int"
                    /\ result.ret.val \in free
                    /\ \A p \in free : result.ret.val <= p
                    /\ tried[Len(tried)] = result.ret.val

\* The first port of the range is taken and the second one is returned.
C25_Witness ==
    /\ request.api = "find_free_port"
    /\ request.start_port < request.end_port
    /\ request.start_port \in request.busy
    /\ result.ret = [type |-> "int", val |-> request.start_port + 1]
    /\ result.cmds = <<request.start_port, request.start_port + 1>>

\* ---------------------------------------------------------------------
\* The operation each action name stands for.
NamedOp ==
    [start |-> "start_service", stop |-> "stop_service",
     restart |-> "restart_service", enable |-> "enable_service",
     disable |-> "disable_service"]

\* C27: manage_service invokes a backend operation only when a backend was
\* selected, is_admin() is true and the action is one of start, stop,
\* restart, enable, disable; otherwise it returns False and invokes none.
\* When it dispatches it invokes exactly the operation the action names,
\* once, on the one backend selected at the start of the call, and returns
\* that operation's result.
C27_ManageDispatch ==
    request.api = "manage_service" =>
        LET sel == GetServiceBackend(os_name, request.probe, request.n_before)
            dispatch == /\ sel.ret # NoneVal
                        /\ request.admin
                        /\ request.action \in DOMAIN NamedOp
        IN  IF dispatch
            THEN /\ result.ops = <<[backend |-> sel.ret,
                                    op |-> NamedOp[request.action],
                                    name |-> request.name]>>
                 /\ result.instantiated = <<sel.ret.kind>>
                 /\ result.ret = BackendOp(sel.ret.kind, NamedOp[request.action],
                                           request.name, request.env).ret
            ELSE /\ result.ret = BoolVal(FALSE)
                 /\ result.ops = <<>>
                 /\ result.cmds = sel.cmds

\* An administrator restarts a service on Linux: one restart_service on the
\* systemd backend, whose failure is what manage_service returns.
C27_Witness ==
    /\ request.api = "manage_service"
    /\ request.admin /\ request.action = "restart"
    /\ Len(result.ops) = 1
    /\ result.ops[1].backend.kind = "systemd"
    /\ result.ops[1].op = "restart_service"
    /\ request.env.out = Exited(1)
    /\ result.ret = BoolVal(FALSE)

\* ---------------------------------------------------------------------
\* C26: watch_process takes an input that parses as an integer as an exact
\* PID and never as a name; otherwise it monitors the first process in
\* enumeration order whose name contains the pattern case-insensitively,
\* skipping the processes whose name cannot be had, and that process only.
C26_FirstMatchOnly ==
    (fn = WATCH /\ pc # "resolve") =>
        LET p    == patterns[1]
            hits == {i \in 1..Len(proc_table) : NameContains(proc_table[i], p)}
        IN  IF IsInt(p)
            THEN processes =
                    IF \E i \in 1..Len(proc_table) : proc_table[i].pid = ParseInt(p)
                    THEN <<ParseInt(p)>> ELSE <<>>
            ELSE IF hits = {} THEN processes = <<>>
            ELSE \E i \in hits :
                    /\ \A k \in hits : i <= k
                    /\ processes = <<proc_table[i].pid>>

\* ---------------------------------------------------------------------
\* C28: the target set watch_multiple_processes builds holds every process
\* whose name contains at least one of the patterns case-insensitively, and
\* each such process exactly once, also when it matches several patterns or
\* a pattern is given twice.
C28_EachTargetOnce ==
    (fn = MULTI /\ pc # "resolve") =>
        LET hits == {proc_table[i].pid : i \in
                        {k \in 1..Len(proc_table) :
                            \E j \in 1..Len(patterns) :
                                NameContains(proc_table[k], patterns[j])}}
        IN  /\ {processes[i] : i \in 1..Len(processes)} = hits
            /\ \A i, j \in 1..Len(processes) :
                   processes[i] = processes[j] => i = j

\* ---------------------------------------------------------------------
\* The service-unit rows of an output of `systemctl list-units'.
UnitRow(line) == line # Blank /\ line[1] \in {"sshd.service", "cron.service"}

\* C29: SystemdBackend.list_services returns exactly one record per
\* service-unit row of the systemctl output, in output order, and none for
\* a header, blank, legend or summary line (outputs that begin with the
\* header line, as systemctl prints them).
C29_OneRecordPerUnit ==
    (/\ request.api = "list_services"
     /\ request.backend = "systemd"
     /\ request.out = Exited(0)
     /\ request.stdout # <<>>
     /\ request.stdout[1] = <<"UNIT", "LOAD", "ACTIVE", "SUB", "DESCRIPTION">>) =>
        LET units == SelectSeq(request.stdout, UnitRow)
        IN  /\ Len(result.ret.val) = Len(units)
            /\ \A i \in 1..Len(units) :
                   /\ result.ret.val[i]["name"] = units[i][1]
                   /\ result.ret.val[i]["load_state"] = units[i][2]
                   /\ result.ret.val[i]["active_state"] = units[i][3]
                   /\ result.ret.val[i]["sub_state"] = units[i][4]

\* ---------------------------------------------------------------------
\* C30: after any number of setup_logging() calls, on the normal path and
\* on the fallback path, the 'procsight' logger holds at most one file
\* handler and at most one console handler.
C30_NoDuplicateHandlers ==
    \A kind \in {"file", "console"} :
        Cardinality({i \in 1..Len(logger) : logger[i] = kind}) <= 1

====
